---- MODULE Spec2Model ----
(***************************************************************************)
(* A model of the Equity-Agent market-data fetcher (tools/market_data.py)  *)
(* and of the dashboard's submit handler (dashboard.py).                   *)
(*                                                                         *)
(* Python values are tagged records:                                       *)
(*   [t |-> "None"]                       None                             *)
(*   [t |-> "int",   neg, d]              an int, d its decimal digits     *)
(*   [t |-> "float", neg, d, e]           a float worth d * 10^-e          *)
(*   [t |-> "nan"]                        float('nan')                     *)
(*   [t |-> "str",   s]                   a str, s its characters          *)
(*   [t |-> "dict",  m]                   a dict, m its items              *)
(*   [t |-> "list",  items]               a list                           *)
(*   [t |-> "df",    cols, close]         a price DataFrame                *)
(*   [t |-> "raise", exc]                 an exception in flight           *)
(* Numbers are decimal digit sequences (most significant digit first), so  *)
(* magnitudes of 1e12 and more are exact.  Rounding is round-half-even on  *)
(* the decimal value, which is what CPython's float formatting and round() *)
(* do whenever the tie is exactly representable in binary (x.125, x.375,   *)
(* x.625, x.875); the inputs below hold ties of that form only.            *)
(***************************************************************************)
EXTENDS Integers, Sequences, FiniteSets, TLC

\* ------------------------------------------------------------- the state

VARIABLES
    arg,            \* the ticker argument of fetch_market_data
    upstream,       \* what the provider answers: [info, hist]
    pc,             \* where the invocation stands
    ticker,         \* the locals of fetch_market_data
    info,
    hist,
    current_price,
    volatility,
    result,         \* what the invocation returned or raised
    outcome,        \* "running", "returned" or "raised"
    queries,        \* the upstream queries this invocation issued
    results,        \* the results of the invocations so far
    fmtIn,          \* the argument of a direct format_market_cap call
    fmtNum,         \* the number that argument encodes, if a float can hold one
    fmtOut,         \* and what the call gave
    sidebar,        \* the dashboard's widgets: [ticker, max_revisions]
    agent,          \* what app.invoke answers in this run
    broken,         \* the streamlit call that raises in this run, or "none"
    step,           \* where the dashboard script stands
    locals,         \* the names the script has bound
    page,           \* the elements displayed so far
    session         \* "idle", "running", "rendered", "error shown", "uncaught"

fetchVars == <<arg, upstream, pc, ticker, info, hist, current_price, volatility,
               result, outcome, queries, results>>

fmtVars == <<fmtIn, fmtNum, fmtOut>>

dashVars == <<sidebar, agent, broken, step, locals, page, session>>

vars == <<fetchVars, fmtVars, dashVars>>

\* ------------------------------------------------------------ characters

DigitChars == <<"0", "1", "2", "3", "4", "5", "6", "7", "8", "9">>

DigitChar(n) == DigitChars[n + 1]

IsDigitChar(c) == \E i \in 1..10 : DigitChars[i] = c

CharDigit(c) == (CHOOSE i \in 1..10 : DigitChars[i] = c) - 1

LowerChars ==
    <<"a", "b", "c", "d", "e", "f", "g", "h", "i", "j", "k", "l", "m", "n",
      "o", "p", "q", "r", "s", "t", "u", "v", "w", "x", "y", "z">>

UpperChars ==
    <<"A", "B", "C", "D", "E", "F", "G", "H", "I", "J", "K", "L", "M", "N",
      "O", "P", "Q", "R", "S", "T", "U", "V", "W", "X", "Y", "Z">>

\* str.upper() on one character
UpperChar(c) ==
    IF \E i \in 1..Len(LowerChars) : LowerChars[i] = c
    THEN UpperChars[CHOOSE i \in 1..Len(LowerChars) : LowerChars[i] = c]
    ELSE c

\* str.lower() on one character
LowerChar(c) ==
    IF \E i \in 1..Len(UpperChars) : UpperChars[i] = c
    THEN LowerChars[CHOOSE i \in 1..Len(UpperChars) : UpperChars[i] = c]
    ELSE c

IsLetter(c) == UpperChar(c) # c \/ LowerChar(c) # c

IsSpace(c) == c = " "

\* ----------------------------------------------------- digit sequences

RECURSIVE StripZeros(_)
StripZeros(ds) ==
    IF Len(ds) > 1 /\ ds[1] = 0 THEN StripZeros(Tail(ds)) ELSE ds

AllZero(ds) == \A i \in 1..Len(ds) : ds[i] = 0

Zeros(n) == [i \in 1..n |-> 0]

RECURSIVE Inc(_)
Inc(ds) ==
    IF ds = <<>> THEN <<1>>
    ELSE IF ds[Len(ds)] < 9
    THEN Append(SubSeq(ds, 1, Len(ds) - 1), ds[Len(ds)] + 1)
    ELSE Append(Inc(SubSeq(ds, 1, Len(ds) - 1)), 0)

\* ds with leading zeros up to k + 1 digits
Pad(ds, k) == IF Len(ds) <= k THEN Zeros(k + 1 - Len(ds)) \o ds ELSE ds

\* Whether quotient q with remainder digits rem rounds up: ties go to even
RoundsUp(q, rem) ==
    \/ rem[1] > 5
    \/ /\ rem[1] = 5
       /\ (~AllZero(Tail(rem)) \/ q[Len(q)] % 2 = 1)

RoundParts(q, rem) == StripZeros(IF RoundsUp(q, rem) THEN Inc(q) ELSE q)

RoundSplit(p, k) ==
    RoundParts(SubSeq(p, 1, Len(p) - k), SubSeq(p, Len(p) - k + 1, Len(p)))

\* ds / 10^k rounded to an integer, ties to even (k <= 0 scales up instead)
RoundHalfEven(ds, k) ==
    IF k <= 0 THEN StripZeros(ds \o Zeros(0 - k)) ELSE RoundSplit(Pad(ds, k), k)

RECURSIVE IntDigits(_)
IntDigits(n) == IF n < 10 THEN <<n>> ELSE Append(IntDigits(n \div 10), n % 10)

\* ------------------------------------------------------- Python values

PyNone == [t |-> "None"]

PyNaN == [t |-> "nan"]

PyInt(neg, ds) == [t |-> "int", neg |-> neg, d |-> ds]

PyFloat(neg, ds, e) == [t |-> "float", neg |-> neg, d |-> ds, e |-> e]

PyStr(cs) == [t |-> "str", s |-> cs]

PyDict(m) == [t |-> "dict", m |-> m]

PyList(items) == [t |-> "list", items |-> items]

Raise(exc) == [t |-> "raise", exc |-> exc]

Unbound == [t |-> "unbound"]

IsRaise(v) == v.t = "raise"

NA == PyStr(<<"N", "/", "A">>)

EmptyDict == PyDict(<<>>)

ZeroInt == PyInt(FALSE, <<0>>)

\* str(val): a str is itself; the text of another object is not modelled
StrOf(val) == IF val.t = "str" THEN val ELSE PyStr(<<"<", val.t, ">">>)

\* str.strip() and str.upper()
RECURSIVE LStrip(_)
LStrip(cs) == IF cs # <<>> /\ IsSpace(cs[1]) THEN LStrip(Tail(cs)) ELSE cs

RECURSIVE RStrip(_)
RStrip(cs) ==
    IF cs # <<>> /\ IsSpace(cs[Len(cs)]) THEN RStrip(SubSeq(cs, 1, Len(cs) - 1))
    ELSE cs

Strip(cs) == RStrip(LStrip(cs))

Upper(cs) == [i \in 1..Len(cs) |-> UpperChar(cs[i])]

\* One float has one representation: no trailing zero in the fraction
RECURSIVE Canon(_, _, _)
Canon(neg, ds, e) ==
    IF e > 0 /\ ds[Len(ds)] = 0 /\ Len(ds) > 1
    THEN Canon(neg, SubSeq(ds, 1, Len(ds) - 1), e - 1)
    ELSE PyFloat(neg, StripZeros(ds), IF AllZero(ds) THEN 0 ELSE e)

\* The digits of body, whose decimal point is at place dot (past the end: none)
ParseDigits(body, neg, dot) ==
    PyFloat(neg,
            StripZeros(<<0>> \o [i \in 1..(dot - 1) |-> CharDigit(body[i])]
                         \o [i \in 1..(Len(body) - dot) |-> CharDigit(body[dot + i])]),
            IF dot > Len(body) THEN 0 ELSE Len(body) - dot)

ParseBody(body, neg, dots) ==
    IF \/ Cardinality(dots) > 1
       \/ \E i \in 1..Len(body) : i \notin dots /\ ~IsDigitChar(body[i])
       \/ \A i \in 1..Len(body) : ~IsDigitChar(body[i])
    THEN Raise("ValueError")
    ELSE ParseDigits(body, neg,
                     IF dots = {} THEN Len(body) + 1 ELSE CHOOSE i \in dots : TRUE)

ParseUnsigned(body, neg) ==
    ParseBody(body, neg, {i \in 1..Len(body) : body[i] = "."})

ParseSigned(b) ==
    IF b # <<>> /\ b[1] \in {"+", "-"} THEN ParseUnsigned(Tail(b), b[1] = "-")
    ELSE ParseUnsigned(b, FALSE)

\* float(s) for a str over digits, sign, point, space and letters that spell
\* no float literal: ValueError unless [sign] digits [. digits] after strip
ParseFloat(cs) == ParseSigned(Strip(cs))

\* The digits of the largest float, 1.797...e308
FloatDigits == 309

\* float(val); an int of more digits than the largest float has is too large
ToFloat(val) ==
    CASE val.t = "float" -> val
      [] val.t = "nan" -> val
      [] val.t = "int" ->
            IF Len(StripZeros(val.d)) > FloatDigits THEN Raise("OverflowError")
            ELSE PyFloat(val.neg, val.d, 0)
      [] val.t = "str" -> ParseFloat(val.s)
      [] OTHER -> Raise("TypeError")

\* bool(v): None, 0, 0.0, -0.0, "", {} and [] are falsy; nan is truthy
Truthy(v) ==
    CASE v.t = "None" -> FALSE
      [] v.t \in {"int", "float"} -> ~AllZero(v.d)
      [] v.t = "str" -> v.s # <<>>
      [] v.t = "dict" -> DOMAIN v.m # {}
      [] v.t = "list" -> v.items # <<>>
      [] OTHER -> TRUE

\* round(v, 2): an int is returned as it is
Round2(v) ==
    CASE v.t = "int" -> v
      [] v.t = "nan" -> v
      [] v.t = "float" ->
            Canon(v.neg, RoundHalfEven(v.d, IF v.e <= 2 THEN 0 ELSE v.e - 2),
                  IF v.e <= 2 THEN v.e ELSE 2)
      [] v.t = "raise" -> v
      [] OTHER -> Raise("TypeError")

\* s * n on a str
Repeat(cs, n) == [i \in 1..(n * Len(cs)) |-> cs[((i - 1) % Len(cs)) + 1]]

\* v * 100
Mul100(v) ==
    CASE v.t = "int" -> PyInt(v.neg, StripZeros(v.d \o <<0, 0>>))
      [] v.t = "nan" -> v
      [] v.t = "float" ->
            Canon(v.neg, v.d \o Zeros(IF v.e >= 2 THEN 0 ELSE 2 - v.e),
                  IF v.e >= 2 THEN v.e - 2 ELSE 0)
      [] v.t = "str" -> PyStr(Repeat(v.s, 100))
      [] OTHER -> Raise("TypeError")

ChSeq(ds) == [i \in 1..Len(ds) |-> DigitChar(ds[i])]

SignChars(neg) == IF neg THEN <<"-">> ELSE <<>>

\* The digits ds with e of them after the point; "12.0" when e is 0
FloatChars(neg, ds, e) ==
    SignChars(neg) \o ChSeq(SubSeq(ds, 1, Len(ds) - e)) \o <<".">>
        \o ChSeq(IF e = 0 THEN <<0>> ELSE SubSeq(ds, Len(ds) - e + 1, Len(ds)))

CanonChars(c) == FloatChars(c.neg, Pad(c.d, c.e), c.e)

\* str(v) of a number, as an f-string renders it: 12 -> "12", 12.0 -> "12.0"
NumChars(v) ==
    CASE v.t = "int" -> SignChars(v.neg) \o ChSeq(v.d)
      [] v.t = "nan" -> <<"n", "a", "n">>
      [] v.t = "float" -> CanonChars(Canon(v.neg, v.d, v.e))

\* ---------------------------------------------------- format_market_cap

\* A comparison that leaves the power of ten itself out: val > 10^p
GtTenPow(f, p) ==
    /\ f.t = "float"
    /\ ~f.neg
    /\ Len(StripZeros(f.d)) - f.e >= p + 1
    /\ ~(/\ Len(StripZeros(f.d)) - f.e = p + 1
         /\ StripZeros(f.d)[1] = 1
         /\ AllZero(Tail(StripZeros(f.d))))

\* val >= 10^p for a float val (every comparison with nan is false)
GeTenPow(f, p) ==
    /\ f.t = "float"
    /\ ~f.neg
    /\ Len(StripZeros(f.d)) - f.e >= p + 1

\* f"{val / 10^p:.2f}"
Fixed2(f, p) == FloatChars(f.neg, Pad(RoundHalfEven(f.d, f.e + p - 2), 2), 2)

\* digits with a comma before every group of three from the right
RECURSIVE Grouped(_)
Grouped(ds) ==
    IF Len(ds) <= 3 THEN ChSeq(ds)
    ELSE Grouped(SubSeq(ds, 1, Len(ds) - 3)) \o <<",">>
            \o ChSeq(SubSeq(ds, Len(ds) - 2, Len(ds)))

\* f"{val:,.0f}"
Comma0(f) ==
    IF f.t = "nan" THEN <<"n", "a", "n">>
    ELSE SignChars(f.neg) \o Grouped(RoundHalfEven(f.d, f.e))

\* lines 16-23: the suffix by magnitude
Magnitude(f) ==
    IF GeTenPow(f, 12) THEN Fixed2(f, 12) \o <<"T">>
    ELSE IF GeTenPow(f, 9) THEN Fixed2(f, 9) \o <<"B">>
    ELSE IF GeTenPow(f, 6) THEN Fixed2(f, 6) \o <<"M">>
    ELSE Comma0(f)

\* A handler for TypeError alone
FmtCaughtTypeOnly == {"TypeError"}

\* except (ValueError, TypeError)
FmtCaught == {"ValueError", "TypeError"}

\* lines 10-23, f being float(val) or what it raised
FormatFloat(val, f) ==
    IF IsRaise(f) THEN (IF f.exc \in FmtCaught THEN StrOf(val) ELSE f)
    ELSE PyStr(<<"$">> \o Magnitude(f))

\* val is None or val == "N/A"
IsMissing(val) == val = PyNone \/ val = NA

format_market_cap(val) ==
    IF IsMissing(val) THEN NA ELSE FormatFloat(val, ToFloat(val))

\* ------------------------------------------------ the upstream provider

OHLC == {"Open", "High", "Low", "Close", "Volume"}

\* A price frame: its columns and its closes, in thousandths of a dollar
DataFrame(cols, close) == [t |-> "df", cols |-> cols, close |-> close]

\* rolling(window=30) and len(hist) >= 30
Window == 30

\* Session counts around the gate: 0..MaxShort and Window +- MaxShort
MaxShort == 2

\* Invocations of the fetcher in one run
MaxCalls == 2

SessionCounts == (0..MaxShort) \cup ((Window - MaxShort)..(Window + MaxShort))

\* Closing prices: flat, or zigzagging on a rising base
ClosePatterns == {"flat", "swing"}

CloseAt(p, i) ==
    IF p = "flat" THEN 100000
    ELSE 100000 + 125 * i + (IF i % 2 = 0 THEN 1005 ELSE 0)

Closes(p, n) == [i \in 1..n |-> CloseAt(p, i)]

Histories ==
    {DataFrame(OHLC, Closes(p, n)) : p \in ClosePatterns, n \in SessionCounts}
      \cup {DataFrame(OHLC \ {"Close"}, Closes("flat", Window + 1)),
            PyNone, Raise("ConnectionError")}

InfoKeys == {"marketCap", "trailingPE", "forwardPE", "revenueGrowth",
             "profitMargins", "debtToEquity", "freeCashflow", "returnOnEquity"}

FullInfo ==
    [k \in InfoKeys |->
        CASE k = "marketCap" -> PyInt(FALSE, <<2, 5>> \o Zeros(11))
          [] k = "freeCashflow" -> PyInt(FALSE, <<4, 5>> \o Zeros(9))
          [] k = "trailingPE" -> PyFloat(FALSE, <<3, 5, 1, 2, 5>>, 3)
          [] k = "forwardPE" -> PyFloat(FALSE, <<2, 8, 4>>, 1)
          [] k = "debtToEquity" -> PyFloat(FALSE, <<4, 1, 0, 7, 8>>, 3)
          [] k = "revenueGrowth" -> PyFloat(FALSE, <<1, 2, 2, 4>>, 4)
          [] k = "profitMargins" -> PyFloat(FALSE, <<5, 5, 8, 5>>, 4)
          [] OTHER -> PyFloat(TRUE, <<9, 1, 8, 7, 5>>, 5)]

\* What one metadata field may hold besides its usual value
FieldValues ==
    {PyNone, PyInt(FALSE, <<0>>), PyFloat(FALSE, <<0>>, 0), PyFloat(TRUE, <<0>>, 0),
     PyInt(FALSE, <<7>>), PyFloat(FALSE, <<1>>, 3), PyFloat(TRUE, <<3, 4, 5, 6>>, 3),
     PyFloat(FALSE, <<9, 9, 9, 9, 9, 9, 5>>, 1), PyNaN,
     PyStr(<<"a", "b", "c">>), NA, PyStr(<<"1", "2", "5", "0", "0", "0", "0">>)}

Infos ==
    {PyDict([FullInfo EXCEPT ![k] = v]) : k \in InfoKeys, v \in FieldValues}
      \cup {PyDict([x \in InfoKeys \ {k} |-> FullInfo[x]]) : k \in InfoKeys}
      \cup {PyDict(FullInfo), EmptyDict, PyNone,
            Raise("ConnectionError"), Raise("KeyError")}

TickerArgs ==
    {PyStr(<<" ", "n", "v", "d", "a", " ">>), PyStr(<<"N", "V", "D", "A">>),
     PyStr(<<"N", "v", "d", "a">>), PyStr(<<"b", " ", "c", " ">>), PyNone}

\* ------------------------------------------------------ derived metrics

\* An emptiness test that looks at the columns alone
HistNoColumns(h) == h.cols = {}

\* hist.empty: an axis of length 0
HistEmpty(h) == Len(h.close) = 0 \/ h.cols = {}

\* Series.pct_change(): no change is defined for the first row; the others
\* are in units of 1e-4, cut to an integer
PctChange(close) ==
    [i \in 1..Len(close) |->
        IF i = 1 THEN [valid |-> FALSE, v |-> 0]
        ELSE [valid |-> TRUE,
              v |-> ((close[i] - close[i - 1]) * 10000) \div close[i - 1]]]

RECURSIVE SumOver(_, _, _)
SumOver(f, lo, hi) == IF lo > hi THEN 0 ELSE f[lo] + SumOver(f, lo + 1, hi)

Isqrt(n) == CHOOSE k \in 0..(n + 1) : k * k <= n /\ (k + 1) * (k + 1) > n

\* The sample deviation (ddof = 1) of w values of sum s and square sum ss, in
\* units of 1e-4: a percentage to two decimals
Deviation(s, ss, w) ==
    Canon(FALSE, IntDigits(Isqrt((w * ss - s * s) \div (w * (w - 1)))), 2)

StdOf(v, w) == Deviation(SumOver(v, 1, w), SumOver([i \in 1..w |-> v[i] * v[i]], 1, w), w)

\* rolling(window=w).std().iloc[-1] * 100: defined only when the last w rows
\* all hold a value (min_periods is the window)
RollingStdLast(pct, w) ==
    IF Len(pct) < w \/ \E i \in (Len(pct) - w + 1)..Len(pct) : ~pct[i].valid
    THEN PyNaN
    ELSE StdOf([i \in 1..w |-> pct[Len(pct) - w + i].v], w)

\* len(hist) >= 30
VolGate(h) == Len(h.close) >= Window

\* lines 51-54
Volatility(h) ==
    IF VolGate(h) THEN RollingStdLast(PctChange(h.close), Window)
    ELSE PyFloat(FALSE, <<0>>, 0)

\* pd.notnull
NotNull(v) == v.t # "nan" /\ v.t # "None"

\* hist['Close'].iloc[-1]
LastClose(h) ==
    IF "Close" \notin h.cols THEN Raise("KeyError")
    ELSE IF Len(h.close) = 0 THEN Raise("IndexError")
    ELSE PyFloat(FALSE, IntDigits(h.close[Len(h.close)]), 3)

\* ---------------------------------------------------------- the payload

\* d.get(k, default); anything but a dict has no get
DictGet(d, k, default) ==
    IF d.t # "dict" THEN Raise("AttributeError")
    ELSE IF k \in DOMAIN d.m THEN d.m[k] ELSE default

\* A test for None in place of truthiness
IfNotNone(c) == c.t # "None"

\* "X if c else 'N/A'": c is info.get(k)
IfPresent(c) == Truthy(c)

RatioValue(c, inf, k) ==
    IF IsRaise(c) THEN c
    ELSE IF IfPresent(c) THEN Round2(DictGet(inf, k, ZeroInt))
    ELSE NA

\* round(info.get(k, 0), 2) if info.get(k) else 'N/A'
RatioField(inf, k) == RatioValue(DictGet(inf, k, PyNone), inf, k)

PercentChars(r) == IF IsRaise(r) THEN r ELSE PyStr(NumChars(r) \o <<"%">>)

PercentValue(c, inf, k) ==
    IF IsRaise(c) THEN c
    ELSE IF IfPresent(c) THEN PercentChars(Round2(Mul100(DictGet(inf, k, ZeroInt))))
    ELSE NA

\* f"{round(info.get(k, 0) * 100, 2)}%" if info.get(k) else 'N/A'
PercentField(inf, k) == PercentValue(DictGet(inf, k, PyNone), inf, k)

CapValue(c) == IF IsRaise(c) THEN c ELSE format_market_cap(c)

\* format_market_cap(info.get(k))
CapField(inf, k) == CapValue(DictGet(inf, k, PyNone))

\* The keys of the payload, in the order the dict display evaluates them
FieldOrder ==
    <<"ticker", "current_price", "volatility_30d", "market_cap", "pe_ratio",
      "forward_pe", "revenue_growth", "profit_margins", "debt_to_equity",
      "free_cash_flow", "return_on_equity", "history_df">>

PayloadField(k, tk, h, inf, price, vol) ==
    CASE k = "ticker" -> PyStr(tk)
      [] k = "current_price" -> Round2(price)
      [] k = "volatility_30d" -> IF NotNull(vol) THEN Round2(vol) ELSE NA
      [] k = "market_cap" -> CapField(inf, "marketCap")
      [] k = "pe_ratio" -> RatioField(inf, "trailingPE")
      [] k = "forward_pe" -> RatioField(inf, "forwardPE")
      [] k = "revenue_growth" -> PercentField(inf, "revenueGrowth")
      [] k = "profit_margins" -> PercentField(inf, "profitMargins")
      [] k = "debt_to_equity" -> RatioField(inf, "debtToEquity")
      [] k = "free_cash_flow" -> CapField(inf, "freeCashflow")
      [] k = "return_on_equity" -> PercentField(inf, "returnOnEquity")
      [] OTHER -> h

\* The dict of the evaluated fields f, or the first exception among them
FirstRaiseOrDict(f, bad) ==
    IF bad # {} THEN f[CHOOSE i \in bad : \A j \in bad : i <= j]
    ELSE PyDict([k \in {FieldOrder[i] : i \in 1..Len(FieldOrder)} |->
                    f[CHOOSE i \in 1..Len(FieldOrder) : FieldOrder[i] = k]])

Evaluated(f) == FirstRaiseOrDict(f, {i \in 1..Len(FieldOrder) : IsRaise(f[i])})

\* A payload that also carries the number of invocations made before it
MarketDataStamped(tk, h, inf, price, vol) ==
    Evaluated([i \in 1..Len(FieldOrder) |->
                  IF FieldOrder[i] = "ticker"
                  THEN PyStr(tk \o <<"#", DigitChar(Len(results))>>)
                  ELSE PayloadField(FieldOrder[i], tk, h, inf, price, vol)])

\* The dict of lines 57-77, or the exception its display raises
MarketData(tk, h, inf, price, vol) ==
    Evaluated([i \in 1..Len(FieldOrder) |->
                  PayloadField(FieldOrder[i], tk, h, inf, price, vol)])

NoDataRecord(tk) ==
    PyDict([error |-> PyStr(<<"No price data available for ticker: ">> \o tk)])

FailedRecord(exc) ==
    PyDict([error |-> PyStr(<<"Market data fetch failed: ", exc>>)])

\* ---------------------------------------------------- fetch_market_data

\* The statements inside the outer try
TryBody == {"normalize", "info", "history", "empty_check", "derive", "payload"}

\* The classes the model raises, all of them subclasses of Exception
ExceptionClasses ==
    {"AttributeError", "KeyError", "IndexError", "TypeError", "ValueError",
     "OverflowError", "ConnectionError", "RuntimeError", "StreamlitAPIException"}

\* A handler for the conversion errors alone
CaughtConversions(exc) == exc \in {"ValueError", "TypeError"}

\* except Exception as e
Caught(exc) == exc \in ExceptionClasses

\* A normalisation that forgets the strip
UpperOnly(a) ==
    IF a.t = "str" THEN PyStr(Upper(a.s)) ELSE Raise("AttributeError")

\* ticker.upper().strip()
NormalizeTicker(a) ==
    IF a.t = "str" THEN PyStr(Strip(Upper(a.s))) ELSE Raise("AttributeError")

\* A metadata read with no handler of its own
InfoUnguarded(answer) == answer

\* try: info = stock.info / except: info = {}
InfoOrEmpty(answer) == IF IsRaise(answer) THEN EmptyDict ELSE answer

Return(rec) ==
    /\ result' = rec
    /\ outcome' = "returned"
    /\ pc' = "done"
    /\ results' = Append(results, rec)

\* An exception raised by the statement at place `at`
Throw(exc, at) ==
    IF at \in TryBody /\ Caught(exc) THEN Return(FailedRecord(exc))
    ELSE /\ result' = Raise(exc)
         /\ outcome' = "raised"
         /\ pc' = "done"
         /\ results' = Append(results, Raise(exc))

FetchInit ==
    /\ arg \in TickerArgs
    /\ upstream \in [info : Infos, hist : Histories]
    /\ pc = "idle"
    /\ ticker = Unbound
    /\ info = Unbound
    /\ hist = Unbound
    /\ current_price = Unbound
    /\ volatility = Unbound
    /\ result = Unbound
    /\ outcome = "idle"
    /\ queries = <<>>
    /\ results = <<>>

\* fetch_market_data(arg) is entered: fresh locals
Call ==
    /\ pc \in {"idle", "done"}
    /\ Len(results) < MaxCalls
    /\ pc' = "normalize"
    /\ ticker' = Unbound
    /\ info' = Unbound
    /\ hist' = Unbound
    /\ current_price' = Unbound
    /\ volatility' = Unbound
    /\ result' = Unbound
    /\ outcome' = "running"
    /\ queries' = <<>>
    /\ UNCHANGED <<arg, upstream, results, fmtVars, dashVars>>

\* lines 32-33
Normalize ==
    /\ pc = "normalize"
    /\ LET t == NormalizeTicker(arg)
       IN  IF IsRaise(t)
           THEN Throw(t.exc, "normalize") /\ UNCHANGED ticker
           ELSE /\ ticker' = t
                /\ pc' = "info"
                /\ UNCHANGED <<result, outcome, results>>
    /\ UNCHANGED <<arg, upstream, info, hist, current_price, volatility, queries,
                   fmtVars, dashVars>>

\* lines 36-39
FetchInfo ==
    /\ pc = "info"
    /\ queries' = Append(queries, [q |-> "info", symbol |-> ticker])
    /\ info' = InfoOrEmpty(upstream.info)
    /\ pc' = "history"
    /\ UNCHANGED <<arg, upstream, ticker, hist, current_price, volatility, result,
                   outcome, results, fmtVars, dashVars>>

\* line 42
FetchHistory ==
    /\ pc = "history"
    /\ queries' = Append(queries, [q |-> "history 6mo", symbol |-> ticker])
    /\ IF IsRaise(upstream.hist)
       THEN Throw(upstream.hist.exc, "history") /\ UNCHANGED hist
       ELSE /\ hist' = upstream.hist
            /\ pc' = "empty_check"
            /\ UNCHANGED <<result, outcome, results>>
    /\ UNCHANGED <<arg, upstream, ticker, info, current_price, volatility, fmtVars,
                   dashVars>>

\* lines 44-45
EmptyCheck ==
    /\ pc = "empty_check"
    /\ IF hist.t # "df" THEN Throw("AttributeError", "empty_check")
       ELSE IF HistEmpty(hist) THEN Return(NoDataRecord(ticker.s))
       ELSE /\ pc' = "derive"
            /\ UNCHANGED <<result, outcome, results>>
    /\ UNCHANGED <<arg, upstream, ticker, info, hist, current_price, volatility,
                   queries, fmtVars, dashVars>>

\* lines 48-54
Derive ==
    /\ pc = "derive"
    /\ LET p == LastClose(hist)
       IN  IF IsRaise(p)
           THEN Throw(p.exc, "derive") /\ UNCHANGED <<current_price, volatility>>
           ELSE /\ current_price' = p
                /\ volatility' = Volatility(hist)
                /\ pc' = "payload"
                /\ UNCHANGED <<result, outcome, results>>
    /\ UNCHANGED <<arg, upstream, ticker, info, hist, queries, fmtVars, dashVars>>

\* lines 57-79
Payload ==
    /\ pc = "payload"
    /\ \E market_data \in {MarketData(ticker.s, hist, info, current_price, volatility)} :
           IF IsRaise(market_data) THEN Throw(market_data.exc, "payload")
           ELSE Return(market_data)
    /\ UNCHANGED <<arg, upstream, ticker, info, hist, current_price, volatility,
                   queries, fmtVars, dashVars>>

\* ------------------------------------------- the dashboard: its inputs

\* A key the agent's final state does not hold
Absent == [t |-> "absent"]

\* The dict of the fields of f that are there
Present(f) == PyDict([k \in {x \in DOMAIN f : f[x] # Absent} |-> f[k]])

\* number_input(min_value=1, max_value=5)
MinRevisions == 1

MaxRevisions == 5

\* news[:5]
Shown == 5

\* The longest news list the agent answers with
MaxNews == 6

Sidebars ==
    [ticker : {PyStr(<<"N", "V", "D", "A">>), PyStr(<<"n", "v", "d", "a", " ">>)},
     max_revisions : MinRevisions..MaxRevisions]

SampleTicker == <<"N", "V", "D", "A">>

SampleHistory == DataFrame(OHLC, Closes("swing", Window + 1))

\* What fetch_market_data returns for a listed symbol
SampleRecord ==
    MarketData(SampleTicker, SampleHistory, PyDict(FullInfo),
               LastClose(SampleHistory), Volatility(SampleHistory))

\* market_data in the final state: absent, None, the two error records, a
\* fetched record, records whose frame is empty or lacks a column, no dict
MarketRecords ==
    {Absent, PyNone, EmptyDict, NoDataRecord(SampleTicker),
     FailedRecord("ConnectionError"), SampleRecord,
     PyDict([SampleRecord.m EXCEPT !.history_df = DataFrame(OHLC, <<>>)]),
     PyDict([SampleRecord.m EXCEPT
                !.history_df = DataFrame(OHLC \ {"Open"}, SampleHistory.close)]),
     PyDict([history_df |-> SampleHistory]),
     PyStr(<<"a", "b", "c">>)}

BuySignal == PyDict([overall_signal |-> PyDict([signal |-> PyStr(<<"B", "U", "Y">>)])])

Technicals ==
    {Absent, PyNone, EmptyDict, BuySignal, PyDict([overall_signal |-> EmptyDict]),
     PyDict([overall_signal |-> PyNone])}

Article(i) ==
    PyDict([title |-> PyStr(<<"headline ", DigitChar(i)>>),
            url |-> PyStr(<<"https://news/", DigitChar(i)>>)])

Headlines(n) == PyList([i \in 1..n |-> Article(i)])

\* news: absent, None, 0..MaxNews articles, an article with no url, an item
\* that is no dict after a good one, a str
NewsLists ==
    {Headlines(n) : n \in 0..MaxNews}
      \cup {Absent, PyNone,
            PyList(<<PyDict([title |-> PyStr(<<"headline">>)])>>),
            PyList(<<Article(1), PyStr(<<"a", "b", "c">>), Article(3)>>),
            PyStr(<<"a", "b", "c">>)}

Drafts == {Absent, PyStr(<<"# Memo">>)}

Critiques == {Absent, PyNone, PyStr(<<>>), PyStr(<<"revise the risks">>)}

FinalState(md, tech, news, draft, crit) ==
    Present([market_data |-> md, technicals |-> tech, news |-> news,
             analyst_draft |-> draft, critique |-> crit])

\* What app.invoke may answer: an exception, None, or a final state
Answers ==
    {Raise("RuntimeError"), Raise("ConnectionError"), PyNone}
      \cup {FinalState(md, tech, Headlines(2), PyStr(<<"# Memo">>), PyNone) :
                md \in MarketRecords, tech \in Technicals}
      \cup {FinalState(md, BuySignal, news, draft, crit) :
                md \in {SampleRecord, NoDataRecord(SampleTicker)},
                news \in NewsLists, draft \in Drafts, crit \in Critiques}

\* The streamlit calls that may raise in a run
Breakable == {"none", "metric", "plotly_chart", "markdown", "table", "json"}

\* ------------------------------------------- the dashboard: its script

Element(el, label, body) == [el |-> el, label |-> label, body |-> body]

\* str(v) as an f-string renders it
FStr(v) ==
    CASE v.t = "str" -> v.s
      [] v.t \in {"int", "float", "nan"} -> NumChars(v)
      [] v.t = "None" -> <<"N", "o", "n", "e">>
      [] OTHER -> StrOf(v).s

\* The characters of the keys a market record may hold
KeyChars(k) ==
    CASE k = "error" -> <<"e", "r", "r", "o", "r">>
      [] k = "ticker" -> <<"t", "i", "c", "k", "e", "r">>
      [] k = "current_price" ->
            <<"c", "u", "r", "r", "e", "n", "t", "_", "p", "r", "i", "c", "e">>
      [] k = "volatility_30d" ->
            <<"v", "o", "l", "a", "t", "i", "l", "i", "t", "y", "_", "3", "0", "d">>
      [] k = "market_cap" -> <<"m", "a", "r", "k", "e", "t", "_", "c", "a", "p">>
      [] k = "pe_ratio" -> <<"p", "e", "_", "r", "a", "t", "i", "o">>
      [] k = "forward_pe" -> <<"f", "o", "r", "w", "a", "r", "d", "_", "p", "e">>
      [] k = "revenue_growth" ->
            <<"r", "e", "v", "e", "n", "u", "e", "_", "g", "r", "o", "w", "t", "h">>
      [] k = "profit_margins" ->
            <<"p", "r", "o", "f", "i", "t", "_", "m", "a", "r", "g", "i", "n", "s">>
      [] k = "debt_to_equity" ->
            <<"d", "e", "b", "t", "_", "t", "o", "_", "e", "q", "u", "i", "t", "y">>
      [] k = "free_cash_flow" ->
            <<"f", "r", "e", "e", "_", "c", "a", "s", "h", "_", "f", "l", "o", "w">>
      [] k = "return_on_equity" ->
            <<"r", "e", "t", "u", "r", "n", "_", "o", "n", "_", "e", "q", "u", "i",
              "t", "y">>
      [] k = "history_df" -> <<"h", "i", "s", "t", "o", "r", "y", "_", "d", "f">>

\* str.replace(a, b) for single characters
Replace(cs, a, b) == [i \in 1..Len(cs) |-> IF cs[i] = a THEN b ELSE cs[i]]

\* str.title(): a letter after a non-letter goes upper, the others lower
Title(cs) ==
    [i \in 1..Len(cs) |->
        IF i = 1 \/ ~IsLetter(cs[i - 1]) THEN UpperChar(cs[i]) ELSE LowerChar(cs[i])]

\* k.replace("_", " ").title()
Label(k) == Title(Replace(KeyChars(k), "_", " "))

\* The keys of a market record in the order the dict holds them
KeyOrder == <<"error">> \o FieldOrder

\* market_data.items()
Items(d) == SelectSeq(KeyOrder, LAMBDA k : k \in DOMAIN d.m)

\* if k != "history_df"
Tabulated(k) == k # "history_df"

Row(d, k) == PyDict([Metric |-> PyStr(Label(k)), Value |-> d.m[k]])

Rows(d, ks) == [i \in 1..Len(ks) |-> Row(d, ks[i])]

\* lines 84-87
MetricsList(d) == Rows(d, SelectSeq(Items(d), Tabulated))

\* What the loop over news[:5] visits; a str is visited character by character
Visited(news) ==
    CASE news.t = "list" ->
            SubSeq(news.items, 1, IF Len(news.items) < Shown THEN Len(news.items)
                                  ELSE Shown)
      [] news.t = "str" ->
            [i \in 1..(IF Len(news.s) < Shown THEN Len(news.s) ELSE Shown) |->
                PyStr(<<news.s[i]>>)]
      [] OTHER -> <<>>

\* line 95
ArticleLine(a) ==
    Element("markdown", "",
            PyStr(<<"- **">> \o FStr(DictGet(a, "title", PyNone))
                    \o <<"** [Read Source](">> \o FStr(DictGet(a, "url", PyNone))
                    \o <<")">>))

\* The articles displayed before the first item that has no get, if there is one
Displayed(items, bad) ==
    [i \in 1..(IF bad = {} THEN Len(items)
               ELSE (CHOOSE i \in bad : \A j \in bad : i <= j) - 1) |->
        ArticleLine(items[i])]

NoGet(items) == {i \in 1..Len(items) : items[i].t # "dict"}

\* A try that ends once the agent has answered
TryInvokeOnly == {"invoke"}

\* The statements inside the try of lines 28-106
TryBlock == {"invoke", "parse", "metrics", "chart", "memo", "fundamentals", "logic"}

\* except Exception as e
Handled(exc) == exc \in ExceptionClasses

\* An exception raised at place `at` after the elements els were displayed
Fail(exc, at, els) ==
    /\ step' = "done"
    /\ IF at \in TryBlock /\ Handled(exc)
       THEN /\ page' = page \o els
                \o <<Element("error", "",
                             PyStr(<<"An unexpected error occurred: ", exc>>))>>
            /\ session' = "error shown"
       ELSE /\ page' = page \o els
            /\ session' = "uncaught"

\* The statement at place `at` displayed els and the script goes on to `next`
Shows(els, next) ==
    /\ page' = page \o els
    /\ step' = next
    /\ session' = IF next = "done" THEN "rendered" ELSE session

NoLocals ==
    [n \in {"ticker", "initial_state", "final_state", "market_data", "technicals",
            "news", "analyst_draft", "critique", "current_price", "signal", "df",
            "metrics_list"} |-> Unbound]

DashInit ==
    /\ sidebar \in Sidebars
    /\ agent \in Answers
    /\ broken \in Breakable
    /\ step = "idle"
    /\ locals = NoLocals
    /\ page = <<>>
    /\ session = "idle"

DashIdle ==
    /\ sidebar = [ticker |-> PyStr(SampleTicker), max_revisions |-> MinRevisions]
    /\ agent = PyNone
    /\ broken = "none"
    /\ step = "idle"
    /\ locals = NoLocals
    /\ page = <<>>
    /\ session = "idle"

\* lines 30-34
InitialState(tk, revisions) ==
    PyDict([ticker |-> tk, max_revisions |-> PyInt(FALSE, IntDigits(revisions)),
            revision_count |-> ZeroInt])

\* lines 21-27: the button is pressed with the sidebar as it stands
Submit ==
    /\ step = "idle"
    /\ step' = "invoke"
    /\ session' = "running"
    /\ locals' = [locals EXCEPT !.ticker = PyStr(Upper(sidebar.ticker.s))]
    /\ UNCHANGED <<sidebar, agent, broken, page, fetchVars, fmtVars>>

\* lines 30-35
Invoke ==
    /\ step = "invoke"
    /\ IF IsRaise(agent)
       THEN /\ Fail(agent.exc, "invoke", <<>>)
            /\ locals' = [locals EXCEPT
                            !.initial_state =
                                InitialState(locals.ticker, sidebar.max_revisions)]
       ELSE /\ Shows(<<>>, "parse")
            /\ locals' = [locals EXCEPT
                            !.initial_state =
                                InitialState(locals.ticker, sidebar.max_revisions),
                            !.final_state = agent]
    /\ UNCHANGED <<sidebar, agent, broken, fetchVars, fmtVars>>

\* lines 38-42
Parse ==
    /\ step = "parse"
    /\ IF locals.final_state.t # "dict"
       THEN Fail("AttributeError", "parse", <<>>) /\ UNCHANGED locals
       ELSE /\ Shows(<<>>, "metrics")
            /\ locals' =
                 [locals EXCEPT
                    !.market_data = DictGet(locals.final_state, "market_data", EmptyDict),
                    !.technicals = DictGet(locals.final_state, "technicals", EmptyDict),
                    !.news = DictGet(locals.final_state, "news", PyList(<<>>)),
                    !.analyst_draft = DictGet(locals.final_state, "analyst_draft",
                                              PyStr(<<"No report generated.">>)),
                    !.critique = DictGet(locals.final_state, "critique", PyNone)]
    /\ UNCHANGED <<sidebar, agent, broken, fetchVars, fmtVars>>

\* technicals.get('overall_signal', {}).get('signal', 'Neutral')
SignalOf(overall) ==
    IF IsRaise(overall) THEN overall
    ELSE DictGet(overall, "signal", PyStr(<<"Neutral">>))

\* lines 49-51
MetricsShown(tk, price, sig) ==
    <<Element("metric", "Ticker", tk),
      Element("metric", "Current Price", PyStr(<<"$">> \o FStr(price))),
      Element("metric", "Analyst Decision", sig)>>

MetricsStep(price, sig) ==
    IF IsRaise(price) THEN Fail(price.exc, "metrics", <<>>) /\ UNCHANGED locals
    ELSE IF IsRaise(sig)
    THEN /\ Fail(sig.exc, "metrics", <<>>)
         /\ locals' = [locals EXCEPT !.current_price = price]
    ELSE /\ locals' = [locals EXCEPT !.current_price = price, !.signal = sig]
         /\ IF broken = "metric" THEN Fail("StreamlitAPIException", "metrics", <<>>)
            ELSE Shows(MetricsShown(locals.ticker, price, sig), "chart")

\* lines 45-51
Metrics ==
    /\ step = "metrics"
    /\ MetricsStep(DictGet(locals.market_data, "current_price", NA),
                   SignalOf(DictGet(locals.technicals, "overall_signal", EmptyDict)))
    /\ UNCHANGED <<sidebar, agent, broken, fetchVars, fmtVars>>

Subheader(cs) == Element("subheader", "", PyStr(cs))

\* isinstance(df, pd.DataFrame) and not df.empty
Drawable(df) == df.t = "df" /\ ~HistEmpty(df)

\* The columns the candlestick reads
Candles == {"Open", "High", "Low", "Close"}

ChartStep(head, df) ==
    /\ locals' = [locals EXCEPT !.df = df]
    /\ IF ~Drawable(df) THEN Shows(<<head>>, "memo")
       ELSE IF ~(Candles \subseteq df.cols) THEN Fail("KeyError", "chart", <<head>>)
       ELSE IF broken = "plotly_chart"
       THEN Fail("StreamlitAPIException", "chart", <<head>>)
       ELSE Shows(<<head, Element("plotly_chart", "", df)>>, "memo")

\* lines 54-73
Chart ==
    /\ step = "chart"
    /\ ChartStep(Subheader(locals.ticker.s \o <<" Price Action (6 Months)">>),
                 DictGet(locals.market_data, "history_df", PyNone))
    /\ UNCHANGED <<sidebar, agent, broken, fetchVars, fmtVars>>

\* lines 76-80
Memo ==
    /\ step = "memo"
    /\ IF broken = "markdown"
       THEN Fail("StreamlitAPIException", "memo", <<Element("tabs", "", PyNone)>>)
       ELSE Shows(<<Element("tabs", "", PyNone),
                    Element("markdown", "", PyStr(<<"### Investment Memo">>)),
                    Element("markdown", "", locals.analyst_draft)>>,
                  "fundamentals")
    /\ UNCHANGED <<sidebar, agent, broken, locals, fetchVars, fmtVars>>

\* lines 92-95: every item of news[:5] is asked for its title and url
NewsStep(before, items) ==
    IF NoGet(items) = {} THEN Shows(before \o Displayed(items, {}), "logic")
    ELSE Fail("AttributeError", "fundamentals",
              before \o Displayed(items, NoGet(items)))

\* lines 83-92
TableStep(head, rows, news) ==
    /\ locals' = [locals EXCEPT !.metrics_list = PyList(rows)]
    /\ IF rows # <<>> /\ broken = "table"
       THEN Fail("StreamlitAPIException", "fundamentals", <<head>>)
       ELSE NewsStep(<<head>>
                        \o (IF rows # <<>> THEN <<Element("table", "", PyList(rows))>>
                            ELSE <<>>)
                        \o <<Subheader(<<"Recent News">>)>>,
                     IF Truthy(news) THEN Visited(news) ELSE <<>>)

\* lines 82-95
Fundamentals ==
    /\ step = "fundamentals"
    /\ TableStep(Subheader(<<"Financial Metrics">>), MetricsList(locals.market_data),
                 locals.news)
    /\ UNCHANGED <<sidebar, agent, broken, fetchVars, fmtVars>>

\* lines 99-102
Verdict(crit) ==
    IF Truthy(crit)
    THEN Element("warning", "", PyStr(<<"Risk Manager Feedback: ">> \o FStr(crit)))
    ELSE Element("success", "",
                 PyStr(<<"Risk Manager approved the report immediately.">>))

LogicShown(crit) ==
    <<Subheader(<<"Risk Management Critique">>), Verdict(crit),
      Subheader(<<"Technical Indicators">>)>>

\* lines 97-105
Logic ==
    /\ step = "logic"
    /\ IF broken = "json"
       THEN Fail("StreamlitAPIException", "logic", LogicShown(locals.critique))
       ELSE Shows(LogicShown(locals.critique)
                     \o <<Element("json", "", locals.technicals)>>,
                  "done")
    /\ UNCHANGED <<sidebar, agent, broken, locals, fetchVars, fmtVars>>

\* ------------------------------------- format_market_cap called directly

\* The longest magnitude given to format_market_cap, in digits
MaxDigits == 14

Prefixes ==
    {<<1>>, <<9>>, <<2, 5>>, <<4, 5>>, <<1, 1, 2, 5>>, <<1, 3, 7, 5>>,
     <<1, 2, 3, 4, 5, 6, 7>>, <<9, 9, 9, 9, 9, 9, 9>>}

\* 1, 10, 100, ..., 25, 250, ..., 9, 99, 999, ... and 0
CapDigits ==
    UNION {{p \o Zeros(n - Len(p)) : n \in Len(p)..MaxDigits} : p \in Prefixes}
      \cup {[i \in 1..n |-> 9] : n \in 1..MaxDigits}
      \cup {<<0>>}

\* Amounts with cents: 999999.5, 1234.5, 0.5, 0.4, 1000000.4, 2.5
CentDigits == {<<9, 9, 9, 9, 9, 9, 5>>, <<1, 2, 3, 4, 5>>, <<0, 5>>, <<0, 4>>,
               <<1, 0, 0, 0, 0, 0, 0, 4>>, <<2, 5>>}

Forms == {"int", "float", "str", "padded str"}

\* The argument that gives the whole number (neg, ds) in one of the forms
Encode(neg, ds, form) ==
    CASE form = "int" -> PyInt(neg, ds)
      [] form = "float" -> PyFloat(neg, ds, 0)
      [] form = "str" -> PyStr(SignChars(neg) \o ChSeq(ds))
      [] OTHER -> PyStr(<<" ">> \o SignChars(neg) \o ChSeq(ds) \o <<" ", " ">>)

\* 10^309, an int no float can hold
HugeInt == PyInt(FALSE, <<1>> \o Zeros(FloatDigits))

\* Arguments that are no number: None, the sentinel, strs float() rejects,
\* a dict, and nan (a float that encodes no number)
NotNumbers ==
    {PyNone, NA, PyStr(<<"a", "b", "c">>), PyStr(<<>>), PyStr(<<"-", "-", "1">>),
     PyStr(<<"1", "2", "a">>), PyStr(<<"1", " ", "2">>), PyStr(<<"+">>),
     PyStr(<<".">>), PyStr(<<"1", ".", "2", ".", "3">>), PyStr(<<" ">>),
     EmptyDict, PyNaN}

FmtInit ==
    /\ fmtOut = Unbound
    /\ \/ \E neg \in BOOLEAN, ds \in CapDigits, form \in Forms :
            /\ ~(neg /\ ds = <<0>> /\ form = "int")
            /\ fmtIn = Encode(neg, ds, form)
            /\ fmtNum = PyFloat(neg, ds, 0)
       \/ \E neg \in BOOLEAN, ds \in CentDigits :
            /\ fmtIn = PyFloat(neg, ds, 1)
            /\ fmtNum = PyFloat(neg, ds, 1)
       \/ /\ fmtIn \in NotNumbers \cup {HugeInt}
          /\ fmtNum = Unbound

\* format_market_cap(fmtIn) is called and returns or raises
Format ==
    /\ fmtOut = Unbound
    /\ fmtOut' = format_market_cap(fmtIn)
    /\ UNCHANGED <<fetchVars, fmtIn, fmtNum, dashVars>>

FmtIdle == fmtIn = PyNone /\ fmtNum = Unbound /\ fmtOut = Unbound

FetchIdle ==
    /\ arg = PyNone
    /\ upstream = [info |-> EmptyDict, hist |-> PyNone]
    /\ pc = "idle"
    /\ ticker = Unbound
    /\ info = Unbound
    /\ hist = Unbound
    /\ current_price = Unbound
    /\ volatility = Unbound
    /\ result = Unbound
    /\ outcome = "idle"
    /\ queries = <<>>
    /\ results = <<>>

InitFmt == FetchIdle /\ FmtInit /\ DashIdle

NextFmt == Format

SpecFmt == InitFmt /\ [][NextFmt]_vars

Init == FetchInit /\ FmtIdle /\ DashIdle

Next ==
    \/ Call
    \/ Normalize
    \/ FetchInfo
    \/ FetchHistory
    \/ EmptyCheck
    \/ Derive
    \/ Payload

Spec == Init /\ [][Next]_vars

InitDash == FetchIdle /\ FmtIdle /\ DashInit

NextDash ==
    \/ Submit
    \/ Invoke
    \/ Parse
    \/ Metrics
    \/ Chart
    \/ Memo
    \/ Fundamentals
    \/ Logic

SpecDash == InitDash /\ [][NextDash]_vars

\* ------------------------------------------------------------ the claims

PayloadKeys == {FieldOrder[i] : i \in 1..Len(FieldOrder)}

FundamentalKeys ==
    {"market_cap", "pe_ratio", "forward_pe", "revenue_growth", "profit_margins",
     "debt_to_equity", "free_cash_flow", "return_on_equity"}

IsErrorRecord(r) ==
    /\ r.t = "dict"
    /\ DOMAIN r.m = {"error"}
    /\ r.m.error.t = "str"
    /\ r.m.error.s # <<>>

IsSuccessRecord(r) == r.t = "dict" /\ DOMAIN r.m = PayloadKeys

IsNoDataRecord(r) ==
    IsErrorRecord(r) /\ r.m.error.s[1] = "No price data available for ticker: "

\* A frame with a Close column and at least one row
WellFormed(h) == h.t = "df" /\ "Close" \in h.cols /\ Len(h.close) > 0

\* ds / 10^k cut to an integer, and whether the cut loses nothing
Trunc(ds, k) ==
    IF k <= 0 THEN StripZeros(ds \o Zeros(0 - k))
    ELSE StripZeros(SubSeq(Pad(ds, k), 1, Len(Pad(ds, k)) - k))

Exact(ds, k) ==
    k <= 0 \/ AllZero(SubSeq(Pad(ds, k), Len(Pad(ds, k)) - k + 1, Len(Pad(ds, k))))

\* h is ds / 10^k rounded to an integer, whatever the rounding rule
Rounded(h, ds, k) ==
    IF Exact(ds, k) THEN StripZeros(h) = Trunc(ds, k)
    ELSE StripZeros(h) \in {Trunc(ds, k), Inc(Trunc(ds, k))}

DigitsIn(cs) ==
    LET only == SelectSeq(cs, IsDigitChar)
    IN  [i \in 1..Len(only) |-> CharDigit(only[i])]

\* The digits of the whole part of a float
IntLen(f) == Len(StripZeros(f.d)) - f.e

\* out is "$" + (v / 10^p to two decimals) + letter
Suffixed(out, v, p, letter) ==
    /\ out.t = "str"
    /\ Len(out.s) >= 6
    /\ out.s[1] = "$"
    /\ out.s[Len(out.s)] = letter
    /\ out.s[Len(out.s) - 3] = "."
    /\ \A i \in 2..(Len(out.s) - 1) : i # Len(out.s) - 3 => IsDigitChar(out.s[i])
    /\ Rounded(DigitsIn(out.s), v.d, v.e + p - 2)

\* out is "$" + sign + the rounded whole number with thousands separators
Plain(out, v) ==
    /\ out.t = "str"
    /\ Len(out.s) >= 2
    /\ out.s[1] = "$"
    /\ LET signed == out.s[2] = "-"
           body == SubSeq(out.s, IF signed THEN 3 ELSE 2, Len(out.s))
       IN  /\ signed = v.neg
           /\ body # <<>>
           /\ \A i \in 1..Len(body) :
                IF (Len(body) - i + 1) % 4 = 0 THEN body[i] = ","
                ELSE IsDigitChar(body[i])
           /\ body[1] # ","
           /\ Rounded(DigitsIn(body), v.d, v.e)

\* The literal equal to the number (neg, ds): an int, or -0.0
Literal(v) ==
    IF v.neg /\ AllZero(v.d) THEN PyFloat(TRUE, v.d, 0) ELSE PyInt(v.neg, v.d)

\* field is the number v rounded to two decimals
Near2(field, v) ==
    IF v.t = "int" THEN field = v
    ELSE /\ field.t = "float"
         /\ field.neg = v.neg
         /\ field.e <= 2
         /\ Rounded(field.d \o Zeros(2 - field.e), v.d, v.e - 2)

\* field is str(v * 100 rounded to two decimals) + "%"
NearPercent(field, v) ==
    /\ field.t = "str"
    /\ Len(field.s) >= 2
    /\ field.s[Len(field.s)] = "%"
    /\ LET body == SubSeq(field.s, 1, Len(field.s) - 1)
       IN  IF v.t = "int" THEN body = SignChars(v.neg) \o ChSeq(StripZeros(v.d \o <<0, 0>>))
           ELSE /\ \E i \in 1..Len(body) : body[i] = "."
                /\ ParseFloat(body).t = "float"
                /\ ParseFloat(body).neg = v.neg
                /\ ParseFloat(body).e <= 2
                /\ Rounded(ParseFloat(body).d \o Zeros(2 - ParseFloat(body).e),
                           v.d, v.e - 4)

IsZeroOrMissing(v) == v.t = "None" \/ (v.t \in {"int", "float"} /\ AllZero(v.d))

IsNonZeroNumber(v) == v.t \in {"int", "float"} /\ ~AllZero(v.d)

\* info.get(k) as the claim reads it: an absent key is None
Held(inf, k) == IF k \in DOMAIN inf.m THEN inf.m[k] ELSE PyNone

NoLower(cs) == \A i \in 1..Len(cs) : UpperChar(cs[i]) = cs[i]

Trimmed(cs) == cs = <<>> \/ (~IsSpace(cs[1]) /\ ~IsSpace(cs[Len(cs)]))

\* q is a, up to the case of its letters and the spaces around it
SameUpToCaseAndMargin(a, q) ==
    \E k \in 0..Len(a) :
        /\ k + Len(q) <= Len(a)
        /\ \A i \in 1..Len(a) :
             IF i > k /\ i <= k + Len(q) THEN UpperChar(a[i]) = UpperChar(q[i - k])
             ELSE IsSpace(a[i])

Normal(a, q) == NoLower(q) /\ Trimmed(q) /\ SameUpToCaseAndMargin(a, q)

SpecExamples ==
    {PyStr(<<" ", "n", "v", "d", "a", " ">>), PyStr(<<"N", "V", "D", "A">>),
     PyStr(<<"N", "v", "d", "a">>)}

\* C1: fetch_market_data never raises: whatever the ticker argument and
\* whatever the provider does, an invocation that ends has returned, and what
\* it returned is either a success record or an error record with a message.
C1_NeverRaises ==
    /\ outcome # "raised"
    /\ pc = "done" =>
         /\ outcome = "returned"
         /\ IsSuccessRecord(result) \/ IsErrorRecord(result)
         /\ ~(IsSuccessRecord(result) /\ IsErrorRecord(result))

C1_Witness ==
    /\ pc = "done"
    /\ IsRaise(upstream.info)
    /\ IsRaise(upstream.hist)
    /\ IsErrorRecord(result)

\* C2: when the history query returns no rows the record holds the error
\* field alone, with the no-price-data message, and neither the current
\* price nor the volatility was computed; the derivation is only ever reached
\* with a non-empty history.
C2_EmptyHistoryOnlyError ==
    /\ pc \in {"derive", "payload"} => Len(hist.close) > 0
    /\ (pc = "done" /\ arg.t = "str" /\ upstream.hist.t = "df"
            /\ Len(upstream.hist.close) = 0) =>
         /\ result.t = "dict"
         /\ DOMAIN result.m = {"error"}
         /\ IsNoDataRecord(result)
         /\ current_price = Unbound
         /\ volatility = Unbound

C2_Witness ==
    /\ pc = "done"
    /\ arg.t = "str"
    /\ upstream.info = PyDict(FullInfo)
    /\ upstream.hist.t = "df"
    /\ Len(upstream.hist.close) = 0
    /\ DOMAIN result.m = {"error"}

\* C3: when the metadata query fails the fetch goes on: the history query is
\* issued after it with info = {}, and on a well-formed non-empty history the
\* result is a success record whose eight fundamentals are all "N/A" while
\* ticker, current_price and volatility_30d come from the history.
C3_MetadataFailureDegrades ==
    (IsRaise(upstream.info) /\ arg.t = "str") =>
        /\ pc \in {"empty_check", "derive", "payload", "done"} =>
             /\ Len(queries) = 2
             /\ queries[1].q = "info"
             /\ queries[2].q = "history 6mo"
             /\ info = EmptyDict
        /\ (pc = "done" /\ WellFormed(upstream.hist)) =>
             /\ IsSuccessRecord(result)
             /\ \A k \in FundamentalKeys : result.m[k] = NA
             /\ result.m.ticker = ticker
             /\ Near2(result.m.current_price, LastClose(upstream.hist))
             /\ result.m.volatility_30d =
                    (IF NotNull(volatility) THEN Round2(volatility) ELSE NA)
             /\ result.m.history_df = upstream.hist

C3_Witness ==
    /\ pc = "done"
    /\ arg.t = "str"
    /\ IsRaise(upstream.info)
    /\ WellFormed(upstream.hist)
    /\ Len(upstream.hist.close) > Window
    /\ IsSuccessRecord(result)
    /\ result.m.pe_ratio = NA

\* C4: volatility gating: a non-empty history of fewer than 30 sessions gives
\* volatility_30d = 0.0 and a history of 30 sessions or more (exactly 30
\* included) gives a number, never the "N/A" sentinel.
C4_VolatilityGating ==
    (pc = "done" /\ IsSuccessRecord(result)) =>
        /\ Len(upstream.hist.close) < Window =>
             result.m.volatility_30d = PyFloat(FALSE, <<0>>, 0)
        /\ Len(upstream.hist.close) >= Window =>
             result.m.volatility_30d.t \in {"int", "float"}

\* C5: format_market_cap picks the largest suffix that applies: T from 1e12,
\* B from 1e9, M from 1e6, each with the quotient to two decimals, and below
\* 1e6 (zero and every negative value included) a "$" with thousands
\* separators, no decimals and no suffix; a numeric string gives what the
\* equal numeric literal gives.
C5_LargestSuffix ==
    (fmtOut # Unbound /\ fmtNum # Unbound) =>
        /\ CASE ~fmtNum.neg /\ IntLen(fmtNum) >= 13 -> Suffixed(fmtOut, fmtNum, 12, "T")
             [] ~fmtNum.neg /\ IntLen(fmtNum) \in 10..12 -> Suffixed(fmtOut, fmtNum, 9, "B")
             [] ~fmtNum.neg /\ IntLen(fmtNum) \in 7..9 -> Suffixed(fmtOut, fmtNum, 6, "M")
             [] OTHER -> Plain(fmtOut, fmtNum)
        /\ fmtIn.t = "str" => fmtOut = format_market_cap(Literal(fmtNum))
        /\ fmtIn = PyInt(FALSE, <<2, 5>> \o Zeros(11)) =>
             fmtOut = PyStr(<<"$", "2", ".", "5", "0", "T">>)
        /\ fmtIn = PyInt(FALSE, <<4, 5>> \o Zeros(9)) =>
             fmtOut = PyStr(<<"$", "4", "5", ".", "0", "0", "B">>)

C5_Witness ==
    /\ fmtIn = PyStr(ChSeq(<<2, 5>> \o Zeros(11)))
    /\ fmtOut = PyStr(<<"$", "2", ".", "5", "0", "T">>)

\* C6 as stated: None, "N/A" and every string that encodes no number give
\* the "N/A" sentinel, and nothing is raised.
C6_SentinelForNonNumeric ==
    fmtOut # Unbound =>
        /\ ~IsRaise(fmtOut)
        /\ (fmtIn = PyNone \/ (fmtIn.t = "str" /\ fmtNum = Unbound)) => fmtOut = NA

\* C6 as the code has it: None and "N/A" give "N/A"; a string that encodes
\* no number is returned as it is; nothing is raised for None, a str, a
\* dict, a float or an int a float can hold, and an int too large for a
\* float raises OverflowError.
C6_NonNumericReturnedAsIs ==
    fmtOut # Unbound =>
        /\ IsRaise(fmtOut) <=> (fmtIn.t = "int" /\ Len(fmtIn.d) > FloatDigits)
        /\ IsRaise(fmtOut) => fmtOut.exc = "OverflowError"
        /\ (fmtIn = PyNone \/ fmtIn = NA) => fmtOut = NA
        /\ (fmtIn.t = "str" /\ fmtNum = Unbound) => fmtOut = fmtIn

C6_Witness ==
    /\ fmtIn = PyStr(<<"a", "b", "c">>)
    /\ fmtOut = PyStr(<<"a", "b", "c">>)

\* C7: in a success record pe_ratio, forward_pe and debt_to_equity are "N/A"
\* when the metadata value is absent, None or 0 and the value rounded to two
\* decimals otherwise; revenue_growth, profit_margins and return_on_equity
\* are "N/A" in the same cases and str(value * 100 rounded to two decimals)
\* followed by "%" otherwise.
C7_ZeroRendersAsMissing ==
    (pc = "done" /\ IsSuccessRecord(result) /\ info.t = "dict") =>
        /\ \A p \in {<<"pe_ratio", "trailingPE">>, <<"forward_pe", "forwardPE">>,
                     <<"debt_to_equity", "debtToEquity">>} :
             /\ IsZeroOrMissing(Held(info, p[2])) => result.m[p[1]] = NA
             /\ IsNonZeroNumber(Held(info, p[2])) =>
                  Near2(result.m[p[1]], Held(info, p[2]))
        /\ \A p \in {<<"revenue_growth", "revenueGrowth">>,
                     <<"profit_margins", "profitMargins">>,
                     <<"return_on_equity", "returnOnEquity">>} :
             /\ IsZeroOrMissing(Held(info, p[2])) => result.m[p[1]] = NA
             /\ IsNonZeroNumber(Held(info, p[2])) =>
                  NearPercent(result.m[p[1]], Held(info, p[2]))

C7_Witness ==
    /\ pc = "done"
    /\ IsSuccessRecord(result)
    /\ info.t = "dict"
    /\ Held(info, "trailingPE") = PyFloat(FALSE, <<0>>, 0)
    /\ Held(info, "revenueGrowth") = PyFloat(FALSE, <<1, 2, 2, 4>>, 4)
    /\ result.m.pe_ratio = NA
    /\ result.m.revenue_growth = PyStr(<<"1", "2", ".", "2", "4", "%">>)

\* C8: the ticker is upper-cased and stripped before either upstream query:
\* every query names the normalised symbol, so arguments that differ only in
\* case or surrounding whitespace issue the same queries; the ticker of a
\* success record and the ticker in the no-price-data message are that
\* symbol too.
C8_NormalizedBeforeQueries ==
    /\ \A i \in 1..Len(queries) :
         /\ queries[i].symbol.t = "str"
         /\ Normal(arg.s, queries[i].symbol.s)
         /\ arg \in SpecExamples => queries[i].symbol.s = <<"N", "V", "D", "A">>
    /\ (pc = "done" /\ IsSuccessRecord(result)) =>
         /\ Normal(arg.s, result.m.ticker.s)
         /\ Len(queries) = 2
    /\ (pc = "done" /\ IsNoDataRecord(result)) =>
         /\ Normal(arg.s, Tail(result.m.error.s))
         /\ Len(queries) = 2

C8_Witness ==
    /\ pc = "done"
    /\ arg = PyStr(<<" ", "n", "v", "d", "a", " ">>)
    /\ IsSuccessRecord(result)
    /\ Len(queries) = 2
    /\ queries[1].symbol = PyStr(<<"N", "V", "D", "A">>)

OnPage(el) == {i \in 1..Len(page) : page[i].el = el}

\* What the Current Price metric says, where it is on the page
PricesShown ==
    {page[i].body : i \in {j \in OnPage("metric") : page[j].label = "Current Price"}}

DollarNA == PyStr(<<"$", "N", "/", "A">>)

\* The rows of every table on the page
TableRows ==
    UNION {{page[i].body.items[j] : j \in 1..Len(page[i].body.items)} :
              i \in OnPage("table")}

HistoryLabel == PyStr(<<"H", "i", "s", "t", "o", "r", "y", " ", "D", "f">>)

\* C10: once the submit button is pressed, a failure of the agent invocation
\* or of the rendering after it (an agent that raises or answers None, a
\* market_data that is an error record, None, missing or no dict, a missing
\* or malformed technicals, news or critique, a streamlit call that raises)
\* never leaves the script as an uncaught exception: the run ends with the
\* page rendered through its last element or with an error message as its
\* last element.  When market_data is an error record the Current Price
\* metric, wherever it is displayed, reads $N/A, it is displayed in every
\* run that renders, and no chart is on the page.  No table row is made
\* from the history_df key or holds the frame.
C10_SubmitEndsRenderedOrWithMessage ==
    /\ session # "uncaught"
    /\ step = "done" => session \in {"rendered", "error shown"}
    /\ session = "error shown" =>
          /\ step = "done"
          /\ OnPage("error") = {Len(page)}
    /\ session = "rendered" =>
          /\ step = "done"
          /\ OnPage("error") = {}
          /\ page[Len(page)].el = "json"
          /\ PricesShown # {}
    /\ IsErrorRecord(locals.market_data) =>
          /\ PricesShown \subseteq {DollarNA}
          /\ OnPage("plotly_chart") = {}
    /\ \A row \in TableRows :
          /\ row.m.Metric # HistoryLabel
          /\ row.m.Value.t # "df"

\* An error record went through the metrics and the table, and a later
\* failure ended the run with the message
C10_Witness ==
    /\ session = "error shown"
    /\ IsErrorRecord(locals.market_data)
    /\ PricesShown = {DollarNA}
    /\ \E row \in TableRows : row.m.Metric = PyStr(<<"E", "r", "r", "o", "r">>)
    /\ OnPage("plotly_chart") = {}

====
